---- MODULE Spec2Model ----
(***************************************************************************)
(* The authenticated API client (axios instance with a request and a       *)
(* response interceptor), the cart store and the auth store of the OWLS    *)
(* storefront frontend, as a state machine.                                *)
(*                                                                         *)
(* Execution is the browser's event loop: one step of the model is one     *)
(* macrotask (a user event or the arrival of an HTTP response).  Promise   *)
(* continuations are microtasks and run before the next macrotask; where   *)
(* the model splits a macrotask (the response interceptor, then the store  *)
(* operation's continuation, then its caller's) the next part is the only  *)
(* step enabled.                                                           *)
(* The backend is out of scope: every response is a nondeterministic       *)
(* choice of status and payload.  Request bodies (product ids, quantities, *)
(* form fields) are never read back by the client and are not modelled.    *)
(***************************************************************************)
EXTENDS Integers, FiniteSets, TLC

\* ------------------------------------------------------------- bounds
MaxCalls == 2      \* operations that can be in flight at the same time
MaxToken == 2      \* distinct bearer token values the backend issues
MaxCart  == 2      \* distinct cart snapshots the backend returns
MaxUser  == 2      \* distinct user records the backend returns
MaxOrder == 2      \* distinct order numbers the backend returns

\* ---------------------------------------------------------- constants
Null == 0                         \* null / undefined / no cookie / no header
Unauthorized == 401               \* the status the response interceptor reacts to
NetworkError == 0                 \* an error without a response (error.response undefined)
WindowDefined == TRUE             \* typeof window !== 'undefined': the client runs in a browser

CallIds  == 1..MaxCalls
Tokens   == 1..MaxToken
Carts    == 1..MaxCart
Users    == 1..MaxUser
Orders   == 1..MaxOrder
PaymentMethods == {"cod", "vnpay", "momo"}
PaymentUrl == "https://pay"       \* a payment_url; "none" stands for a missing or empty one
ErrStatuses == {NetworkError, Unauthorized, 500}

CartMutations == {"addToCart", "updateQuantity", "removeFromCart", "clearCart"}
CartOps  == CartMutations \cup {"fetchCart"}

VARIABLES
    access_token,    \* cookie 'access_token' (Null: not stored)
    refresh_token,   \* cookie 'refresh_token'
    authStorage,     \* localStorage['auth-storage']
    cartStorage,     \* localStorage['cart-storage']
    authStore,       \* useAuthStore state
    cartStore,       \* useCartStore state
    navigation,      \* pending hard navigation (window.location.href assigned), "none" if none
    calls,           \* the operations in flight, with the request each is awaiting
    purged           \* history: the session was purged and no login/register succeeded since

vars == <<access_token, refresh_token, authStorage, cartStorage, authStore,
          cartStore, navigation, calls, purged>>

\* ------------------------------------------------------------ records
NoError    == [attempt |-> 0, status |-> 0, isRefresh |-> FALSE]
NoData     == [access |-> Null, refresh |-> Null, body |-> Null, payment_url |-> "none"]
NoResponse == [ok |-> FALSE, error |-> NoError, data |-> NoData]
NoSession  == [user |-> Null, isAuthenticated |-> FALSE,
               access_token |-> Null, refresh_token |-> Null]

IdleCall ==
    [op |-> "none", pc |-> "idle", stage |-> 0,
     \* the request config and the interceptor's closure
     _retry |-> FALSE, Authorization |-> Null, attempt |-> 0, error |-> NoError,
     \* how the request promise settled (pc = "settled") and how the
     \* operation's own promise settled (pc = "done")
     response |-> NoResponse, result |-> "pending", thrown |-> NoError,
     \* history of this original request
     refreshCalls |-> 0, reissues |-> 0, had401 |-> FALSE,
     refreshed |-> Null,
     \* history of this cart operation: the cart operations that were in
     \* flight when it started, and whether the response of one that
     \* started after it has already been applied to the store
     behind |-> {}, overtaken |-> FALSE,
     \* history of this clearCart: the cart was already null when it started
     onEmpty |-> FALSE,
     \* history of this login: the session when it started, and the
     \* tokens the credential endpoint returned
     before |-> NoSession, granted |-> NoData,
     \* history: a logout completed while this operation was in flight
     stale |-> FALSE,
     \* the checkout page: the form's payment_method, the isSubmitting
     \* state, and what the submit handler navigated to (the url assigned
     \* to window.location.href, the order number whose page it pushed)
     payment_method |-> "none", isSubmitting |-> FALSE,
     location |-> "none", pushed |-> Null]

\* ------------------------------------------------- persist middleware
\* partialize of the auth store: user and isAuthenticated, never isLoading
AuthPartialize(s) ==
    [present |-> TRUE, user |-> s.user, isAuthenticated |-> s.isAuthenticated]

\* partialize of the cart store: the cart only
CartPartialize(s) == [present |-> TRUE, cart |-> s.cart]

AuthStorageAbsent == [present |-> FALSE, user |-> Null, isAuthenticated |-> FALSE]
CartStorageAbsent == [present |-> FALSE, cart |-> Null]

AuthInitial == [user |-> Null, isAuthenticated |-> FALSE, isLoading |-> FALSE]
CartInitial == [cart |-> Null, isLoading |-> FALSE, error |-> FALSE]

\* the store state a page load builds: the initial state overlaid with the
\* persisted snapshot when the key exists
AuthRehydrate(st) ==
    IF st.present
    THEN [AuthInitial EXCEPT !.user = st.user, !.isAuthenticated = st.isAuthenticated]
    ELSE AuthInitial

CartRehydrate(st) ==
    IF st.present THEN [CartInitial EXCEPT !.cart = st.cart] ELSE CartInitial

\* -------------------------------------------------------- API client
\* no promise continuation is pending (one that is runs before anything
\* else): neither an operation awaiting a request that has settled, nor a
\* caller awaiting an operation that has settled
NoMicrotask == \A c \in CallIds : calls[c].pc \notin {"settled", "done"}

\* the slot a new operation takes: the lowest one not in use
Free(c) ==
    /\ NoMicrotask
    /\ calls[c].pc = "idle"
    /\ \A d \in CallIds : d < c => calls[d].pc # "idle"

\* request interceptor: the Authorization header the request leaves with,
\* given the header already on the config and the access_token cookie
RequestInterceptor_NeverAttaches(header, token) == header

RequestInterceptor(header, token) == IF token # Null THEN token ELSE header

\* api.get / api.post / api.patch: a new original request of operation o
Request(o, st) ==
    [IdleCall EXCEPT !.op = o, !.pc = "sent", !.stage = st, !.attempt = 1,
                     !.Authorization = RequestInterceptor(Null, access_token)]

\* the request promise settles: fulfilled with a response, or rejected
Fulfilled(call, d) ==
    [call EXCEPT !.pc = "settled", !.response = [ok |-> TRUE, error |-> NoError, data |-> d]]

Rejected(call, e) ==
    [call EXCEPT !.pc = "settled", !.response = [ok |-> FALSE, error |-> e, data |-> NoData]]

\* the payloads a 2xx response of each endpoint can carry
Payloads(o, st) ==
    CASE o = "login" /\ st = 1 ->
            {[NoData EXCEPT !.access = a, !.refresh = r] : a \in Tokens, r \in Tokens}
      [] o = "register" ->
            {[NoData EXCEPT !.access = a, !.refresh = r, !.body = u] :
                a \in Tokens, r \in Tokens, u \in Users}
      [] o \in {"fetchProfile", "updateProfile"} \/ (o = "login" /\ st = 2) ->
            {[NoData EXCEPT !.body = u] : u \in Users}
      [] o \in CartOps ->
            {[NoData EXCEPT !.body = k] : k \in Carts}
      [] o = "checkout" ->
            {[NoData EXCEPT !.body = n, !.payment_url = u] :
                n \in Orders, u \in {"none", PaymentUrl}}
      [] OTHER -> {NoData}

\* response interceptor, success handler: the response passes through
ResponseOk(c, d) ==
    /\ NoMicrotask
    /\ calls[c].pc = "sent"
    /\ d \in Payloads(calls[c].op, calls[c].stage)
    /\ calls' = [calls EXCEPT ![c] = Fulfilled(@, d)]
    /\ UNCHANGED <<access_token, refresh_token, authStorage, cartStorage,
                   authStore, cartStore, navigation, purged>>

\* the condition under which the error handler starts the refresh flow
Recoverable_IgnoresRetry(status, retried) == status = Unauthorized

Recoverable_AnyError(status, retried) == ~retried

Recoverable(status, retried) == status = Unauthorized /\ ~retried

\* catch (refreshError): both cookies removed, the persisted auth store
\* deleted and a hard navigation to /login started; 'cart-storage' stays
SessionPurge_KeepsRefreshToken ==
    /\ access_token' = Null
    /\ authStorage' = IF WindowDefined THEN AuthStorageAbsent ELSE authStorage
    /\ navigation' = IF WindowDefined THEN "/login" ELSE navigation
    /\ purged' = TRUE
    /\ UNCHANGED <<refresh_token, cartStorage>>

SessionPurge ==
    /\ access_token' = Null
    /\ refresh_token' = Null
    /\ authStorage' = IF WindowDefined THEN AuthStorageAbsent ELSE authStorage
    /\ navigation' = IF WindowDefined THEN "/login" ELSE navigation
    /\ purged' = TRUE
    /\ UNCHANGED cartStorage

\* a refresh token is stored: axios.post(.../users/token/refresh/) leaves,
\* outside the client, and the handler awaits it
StartRefresh_Coalesced(c, call, error) ==
    /\ calls' = [calls EXCEPT ![c] =
                    [call EXCEPT !._retry = TRUE, !.pc = "refreshing", !.error = error,
                                 !.refreshCalls =
                                     IF \E d \in CallIds : calls[d].pc = "refreshing"
                                     THEN @ ELSE @ + 1]]
    /\ UNCHANGED <<access_token, refresh_token, authStorage, cartStorage,
                   navigation, purged>>

StartRefresh(c, call, error) ==
    /\ calls' = [calls EXCEPT ![c] =
                    [call EXCEPT !._retry = TRUE, !.pc = "refreshing", !.error = error,
                                 !.refreshCalls = @ + 1]]
    /\ UNCHANGED <<access_token, refresh_token, authStorage, cartStorage,
                   navigation, purged>>

\* no refresh token is stored: throw new Error('No refresh token') is
\* caught at once, the session purged and the error of the request rejected
NoRefreshToken(c, call, error) ==
    /\ SessionPurge
    /\ calls' = [calls EXCEPT ![c] = Rejected([call EXCEPT !._retry = TRUE], error)]

\* not a recoverable 401: return Promise.reject(error)
PassThrough_Purges(c, call, error) ==
    /\ calls' = [calls EXCEPT ![c] = Rejected(call, error)]
    /\ IF error.status = Unauthorized
       THEN SessionPurge
       ELSE UNCHANGED <<access_token, refresh_token, authStorage, cartStorage,
                        navigation, purged>>

PassThrough(c, call, error) ==
    /\ calls' = [calls EXCEPT ![c] = Rejected(call, error)]
    /\ UNCHANGED <<access_token, refresh_token, authStorage, cartStorage,
                   navigation, purged>>

\* response interceptor, error handler, on the error of a request
ResponseError(c, status) ==
    /\ NoMicrotask
    /\ calls[c].pc = "sent"
    /\ LET error == [attempt |-> calls[c].attempt, status |-> status, isRefresh |-> FALSE]
           \* history: a not-yet-retried request answered 401 with a refresh token stored
           call  == [calls[c] EXCEPT !.had401 =
                        @ \/ (status = Unauthorized /\ ~calls[c]._retry
                                /\ refresh_token # Null)]
       IN  IF Recoverable(status, call._retry)
           THEN IF refresh_token # Null
                THEN StartRefresh(c, call, error)
                ELSE NoRefreshToken(c, call, error)
           ELSE PassThrough(c, call, error)
    /\ UNCHANGED <<authStore, cartStore>>

\* the refresh call succeeded: the new access token is stored and the
\* original request re-issued through the client (request interceptor again)
RefreshOk_NoStore(c, access) ==
    /\ NoMicrotask
    /\ calls[c].pc = "refreshing"
    /\ calls' = [calls EXCEPT ![c] =
                    [@ EXCEPT !.pc = "sent", !.attempt = @ + 1, !.reissues = @ + 1,
                              !.refreshed = access,
                              !.Authorization = RequestInterceptor(access, access_token)]]
    /\ UNCHANGED <<access_token, refresh_token, authStorage, cartStorage, authStore,
                   cartStore, navigation, purged>>

RefreshOk(c, access) ==
    /\ NoMicrotask
    /\ calls[c].pc = "refreshing"
    /\ access_token' = access
    /\ calls' = [calls EXCEPT ![c] =
                    [@ EXCEPT !.pc = "sent", !.attempt = @ + 1, !.reissues = @ + 1,
                              !.refreshed = access,
                              !.Authorization = RequestInterceptor(access, access_token')]]
    /\ UNCHANGED <<refresh_token, authStorage, cartStorage, authStore, cartStore,
                   navigation, purged>>

\* the refresh call was rejected: purge, then Promise.reject(error) with the
\* error of the original request
RefreshError_RejectsWithRefreshError(c, status) ==
    /\ NoMicrotask
    /\ calls[c].pc = "refreshing"
    /\ SessionPurge
    /\ calls' = [calls EXCEPT ![c] =
                    Rejected(@, [attempt |-> @.attempt, status |-> status, isRefresh |-> TRUE])]
    /\ UNCHANGED <<authStore, cartStore>>

RefreshError(c, status) ==
    /\ NoMicrotask
    /\ calls[c].pc = "refreshing"
    /\ SessionPurge
    /\ calls' = [calls EXCEPT ![c] = Rejected(@, @.error)]
    /\ UNCHANGED <<authStore, cartStore>>

\* the operation's own promise settles
Resolve(call) ==
    [IdleCall EXCEPT !.op = call.op, !.pc = "done", !.result = "resolved",
                     !.response = call.response]
Reject(call, e) ==
    [IdleCall EXCEPT !.op = call.op, !.pc = "done", !.result = "rejected", !.thrown = e]

\* --------------------------------------------------------- cart store
\* set({ isLoading: true, error: null }) and the request, the common
\* opening of the five cart operations
CartBegin(c, o) ==
    /\ Free(c)
    /\ cartStore' = [cartStore EXCEPT !.isLoading = TRUE, !.error = FALSE]
    /\ cartStorage' = CartPartialize(cartStore')
    /\ calls' = [calls EXCEPT ![c] =
                    [Request(o, 1) EXCEPT
                        !.behind = {d \in CallIds : calls[d].op \in CartOps
                                                     /\ calls[d].pc # "idle"},
                        !.onEmpty = (o = "clearCart" /\ cartStore.cart = Null)]]
    /\ UNCHANGED <<access_token, refresh_token, authStorage, authStore, navigation, purged>>

fetchCart(c)      == CartBegin(c, "fetchCart")
addToCart(c)      == CartBegin(c, "addToCart")
updateQuantity(c) == CartBegin(c, "updateQuantity")
removeFromCart(c) == CartBegin(c, "removeFromCart")
clearCart(c)      == CartBegin(c, "clearCart")

\* the cart a successful operation assigns: response.data (fetchCart),
\* response.data.cart (add, update, remove), null (clearCart)
CartOnSuccess_ClearReadsResponse(o, body) == body

CartOnSuccess(o, body) == IF o = "clearCart" THEN Null ELSE body

\* the store after the try block and the finally block of a successful operation
CartSucceeded_MergesLocally(s, o, body) ==
    [s EXCEPT !.cart = IF s.cart # Null /\ o # "clearCart" THEN s.cart ELSE CartOnSuccess(o, body),
              !.isLoading = FALSE]

CartSucceeded(s, o, body) ==
    [s EXCEPT !.cart = CartOnSuccess(o, body), !.isLoading = FALSE]

\* the store after the catch block and the finally block of a failed operation
CartFailed_DropsCart(s) == [s EXCEPT !.cart = Null, !.error = TRUE, !.isLoading = FALSE]

CartFailed(s) == [s EXCEPT !.error = TRUE, !.isLoading = FALSE]

\* the calls after the response of c was applied to the store: c's own
\* promise resolves, and every cart operation that started before c and is
\* still in flight has been overtaken
Applied(c) ==
    [x \in CallIds |->
        IF x = c THEN [Resolve(calls[c]) EXCEPT !.overtaken = calls[c].overtaken,
                                                !.onEmpty = calls[c].onEmpty]
        ELSE IF x \in calls[c].behind THEN [calls[x] EXCEPT !.overtaken = TRUE]
        ELSE calls[x]]

\* the continuation of a cart operation once its request has settled
CartContinue_LastIssuedWins(c) ==
    /\ calls[c].pc = "settled"
    /\ calls[c].op \in CartOps
    /\ LET call == calls[c]
       IN  IF call.response.ok
           THEN /\ cartStore' = IF call.overtaken
                                THEN [cartStore EXCEPT !.isLoading = FALSE]
                                ELSE CartSucceeded(cartStore, call.op, call.response.data.body)
                /\ calls' = Applied(c)
           ELSE /\ cartStore' = CartFailed(cartStore)
                /\ calls' = [calls EXCEPT ![c] =
                                IF call.op = "fetchCart"
                                THEN Resolve(call)
                                ELSE Reject(call, call.response.error)]
    /\ cartStorage' = CartPartialize(cartStore')
    /\ UNCHANGED <<access_token, refresh_token, authStorage, authStore, navigation, purged>>

CartContinue(c) ==
    /\ calls[c].pc = "settled"
    /\ calls[c].op \in CartOps
    /\ LET call == calls[c]
       IN  IF call.response.ok
           THEN /\ cartStore' = CartSucceeded(cartStore, call.op, call.response.data.body)
                /\ calls' = Applied(c)
           ELSE /\ cartStore' = CartFailed(cartStore)
                /\ calls' = [calls EXCEPT ![c] =
                                IF call.op = "fetchCart"
                                THEN Resolve(call)
                                ELSE Reject(call, call.response.error)]
    /\ cartStorage' = CartPartialize(cartStore')
    /\ UNCHANGED <<access_token, refresh_token, authStorage, authStore, navigation, purged>>

\* --------------------------------------------------------- auth store
\* no operation is in flight
Quiet == \A c \in CallIds : calls[c].pc = "idle"

\* the session as the stores and the cookies hold it
Session ==
    [user |-> authStore.user, isAuthenticated |-> authStore.isAuthenticated,
     access_token |-> access_token, refresh_token |-> refresh_token]

\* every set() of the auth store writes the partialized state
AuthSet_NoPersist(s) ==
    /\ authStore' = s
    /\ UNCHANGED authStorage

AuthSet(s) ==
    /\ authStore' = s
    /\ authStorage' = AuthPartialize(s)

login(c) ==
    /\ Free(c)
    /\ AuthSet([authStore EXCEPT !.isLoading = TRUE])
    /\ calls' = [calls EXCEPT ![c] = [Request("login", 1) EXCEPT !.before = Session]]
    /\ UNCHANGED <<access_token, refresh_token, cartStorage, cartStore, navigation, purged>>

\* login after the credential call settled: on success both cookies are
\* written and get().fetchProfile() sends the profile request
LoginCredentialContinue_SendsBeforeStoring(c) ==
    /\ calls[c].pc = "settled"
    /\ calls[c].op = "login"
    /\ calls[c].stage = 1
    /\ LET call == calls[c]
       IN  IF call.response.ok
           THEN /\ access_token' = call.response.data.access
                /\ refresh_token' = call.response.data.refresh
                /\ purged' = FALSE
                /\ calls' = [calls EXCEPT ![c] =
                                [Request("login", 2) EXCEPT
                                    !.granted = call.response.data,
                                    !.stale = call.stale,
                                    !.Authorization =
                                        RequestInterceptor(Null, access_token)]]
                /\ UNCHANGED <<authStore, authStorage>>
           ELSE /\ AuthSet([authStore EXCEPT !.isLoading = FALSE])
                /\ calls' = [calls EXCEPT ![c] = Reject(call, call.response.error)]
                /\ UNCHANGED <<access_token, refresh_token, purged>>
    /\ UNCHANGED <<cartStorage, cartStore, navigation>>

LoginCredentialContinue(c) ==
    /\ calls[c].pc = "settled"
    /\ calls[c].op = "login"
    /\ calls[c].stage = 1
    /\ LET call == calls[c]
       IN  IF call.response.ok
           THEN /\ access_token' = call.response.data.access
                /\ refresh_token' = call.response.data.refresh
                /\ purged' = FALSE
                /\ calls' = [calls EXCEPT ![c] =
                                [Request("login", 2) EXCEPT
                                    !.granted = call.response.data,
                                    !.stale = call.stale,
                                    !.Authorization =
                                        RequestInterceptor(Null, access_token')]]
                /\ UNCHANGED <<authStore, authStorage>>
           ELSE /\ AuthSet([authStore EXCEPT !.isLoading = FALSE])
                /\ calls' = [calls EXCEPT ![c] = Reject(call, call.response.error)]
                /\ UNCHANGED <<access_token, refresh_token, purged>>
    /\ UNCHANGED <<cartStorage, cartStore, navigation>>

\* the auth store after fetchProfile's try or catch block
ProfileFetched_KeepsUserOnFailure(s, response) ==
    IF response.ok
    THEN [s EXCEPT !.user = response.data.body, !.isAuthenticated = TRUE]
    ELSE [s EXCEPT !.isAuthenticated = FALSE]

ProfileFetched(s, response) ==
    IF response.ok
    THEN [s EXCEPT !.user = response.data.body, !.isAuthenticated = TRUE]
    ELSE [s EXCEPT !.user = Null, !.isAuthenticated = FALSE]

\* login after its fetchProfile() returned (fetchProfile never rejects):
\* set({ isAuthenticated: true }), then finally set({ isLoading: false })
LoginProfileContinue(c) ==
    /\ calls[c].pc = "settled"
    /\ calls[c].op = "login"
    /\ calls[c].stage = 2
    /\ AuthSet([ProfileFetched(authStore, calls[c].response) EXCEPT
                    !.isAuthenticated = TRUE, !.isLoading = FALSE])
    /\ calls' = [calls EXCEPT ![c] = [Resolve(@) EXCEPT !.granted = calls[c].granted]]
    /\ UNCHANGED <<access_token, refresh_token, cartStorage, cartStore, navigation, purged>>

register(c) ==
    /\ Free(c)
    /\ AuthSet([authStore EXCEPT !.isLoading = TRUE])
    /\ calls' = [calls EXCEPT ![c] = Request("register", 1)]
    /\ UNCHANGED <<access_token, refresh_token, cartStorage, cartStore, navigation, purged>>

\* register after the registration call settled
RegisterContinue_IgnoresUser(c) ==
    /\ calls[c].pc = "settled"
    /\ calls[c].op = "register"
    /\ LET call == calls[c]
       IN  IF call.response.ok
           THEN /\ access_token' = call.response.data.access
                /\ refresh_token' = call.response.data.refresh
                /\ purged' = FALSE
                /\ AuthSet([authStore EXCEPT !.isAuthenticated = TRUE,
                                             !.isLoading = FALSE])
                /\ calls' = [calls EXCEPT ![c] = Resolve(call)]
           ELSE /\ AuthSet([authStore EXCEPT !.isLoading = FALSE])
                /\ calls' = [calls EXCEPT ![c] = Reject(call, call.response.error)]
                /\ UNCHANGED <<access_token, refresh_token, purged>>
    /\ UNCHANGED <<cartStorage, cartStore, navigation>>

RegisterContinue(c) ==
    /\ calls[c].pc = "settled"
    /\ calls[c].op = "register"
    /\ LET call == calls[c]
       IN  IF call.response.ok
           THEN /\ access_token' = call.response.data.access
                /\ refresh_token' = call.response.data.refresh
                /\ purged' = FALSE
                /\ AuthSet([authStore EXCEPT !.user = call.response.data.body,
                                             !.isAuthenticated = TRUE,
                                             !.isLoading = FALSE])
                /\ calls' = [calls EXCEPT ![c] = Resolve(call)]
           ELSE /\ AuthSet([authStore EXCEPT !.isLoading = FALSE])
                /\ calls' = [calls EXCEPT ![c] = Reject(call, call.response.error)]
                /\ UNCHANGED <<access_token, refresh_token, purged>>
    /\ UNCHANGED <<cartStorage, cartStore, navigation>>

\* logout's finally block
LoggedOut_KeepsAccessToken ==
    /\ refresh_token' = Null
    /\ AuthSet([authStore EXCEPT !.user = Null, !.isAuthenticated = FALSE])
    /\ UNCHANGED access_token

LoggedOut ==
    /\ access_token' = Null
    /\ refresh_token' = Null
    /\ AuthSet([authStore EXCEPT !.user = Null, !.isAuthenticated = FALSE])

\* the calls after logout's finally block: logout's own promise resolves;
\* every other operation in flight has outlived a logout
AfterLogout(c, own) ==
    [x \in CallIds |->
        IF x = c THEN own
        ELSE IF calls[x].pc # "idle" THEN [calls[x] EXCEPT !.stale = TRUE]
        ELSE calls[x]]

\* logout: the invalidation request is sent only when a refresh token is
\* stored; otherwise the finally block runs at once
logout(c) ==
    /\ Free(c)
    /\ IF refresh_token # Null
       THEN /\ calls' = [calls EXCEPT ![c] = Request("logout", 1)]
            /\ UNCHANGED <<access_token, refresh_token, authStore, authStorage>>
       ELSE /\ LoggedOut
            /\ calls' = AfterLogout(c, Resolve([IdleCall EXCEPT !.op = "logout"]))
    /\ UNCHANGED <<cartStorage, cartStore, navigation, purged>>

LogoutContinue(c) ==
    /\ calls[c].pc = "settled"
    /\ calls[c].op = "logout"
    /\ LoggedOut
    /\ calls' = AfterLogout(c, Resolve(calls[c]))
    /\ UNCHANGED <<cartStorage, cartStore, navigation, purged>>

fetchProfile(c) ==
    /\ Free(c)
    /\ calls' = [calls EXCEPT ![c] = Request("fetchProfile", 1)]
    /\ UNCHANGED <<access_token, refresh_token, authStorage, cartStorage, authStore,
                   cartStore, navigation, purged>>

FetchProfileContinue(c) ==
    /\ calls[c].pc = "settled"
    /\ calls[c].op = "fetchProfile"
    /\ AuthSet(ProfileFetched(authStore, calls[c].response))
    /\ calls' = [calls EXCEPT ![c] = Resolve(@)]
    /\ UNCHANGED <<access_token, refresh_token, cartStorage, cartStore, navigation, purged>>

updateProfile(c) ==
    /\ Free(c)
    /\ calls' = [calls EXCEPT ![c] = Request("updateProfile", 1)]
    /\ UNCHANGED <<access_token, refresh_token, authStorage, cartStorage, authStore,
                   cartStore, navigation, purged>>

\* updateProfile after the PATCH settled
UpdateProfileContinue_MergesLocally(c) ==
    /\ calls[c].pc = "settled"
    /\ calls[c].op = "updateProfile"
    /\ LET call == calls[c]
       IN  IF call.response.ok
           THEN /\ AuthSet([authStore EXCEPT !.user =
                                IF @ # Null THEN @ ELSE call.response.data.body])
                /\ calls' = [calls EXCEPT ![c] = Resolve(call)]
           ELSE /\ calls' = [calls EXCEPT ![c] = Reject(call, call.response.error)]
                /\ UNCHANGED <<authStore, authStorage>>
    /\ UNCHANGED <<access_token, refresh_token, cartStorage, cartStore, navigation, purged>>

UpdateProfileContinue(c) ==
    /\ calls[c].pc = "settled"
    /\ calls[c].op = "updateProfile"
    /\ LET call == calls[c]
       IN  IF call.response.ok
           THEN /\ AuthSet([authStore EXCEPT !.user = call.response.data.body])
                /\ calls' = [calls EXCEPT ![c] = Resolve(call)]
           ELSE /\ calls' = [calls EXCEPT ![c] = Reject(call, call.response.error)]
                /\ UNCHANGED <<authStore, authStorage>>
    /\ UNCHANGED <<access_token, refresh_token, cartStorage, cartStore, navigation, purged>>

setUser(u) ==
    /\ NoMicrotask
    /\ AuthSet([authStore EXCEPT !.user = u, !.isAuthenticated = (u # Null)])
    /\ UNCHANGED <<access_token, refresh_token, cartStorage, cartStore, navigation,
                   calls, purged>>

\* -------------------------------------------------------------- pages
\* a page's own request through the client (the orders page): the outcome
\* goes to component state, the catch block swallows the error
fetchOrders(c) ==
    /\ Free(c)
    /\ calls' = [calls EXCEPT ![c] = Request("fetchOrders", 1)]
    /\ UNCHANGED <<access_token, refresh_token, authStorage, cartStorage, authStore,
                   cartStore, navigation, purged>>

FetchOrdersContinue(c) ==
    /\ calls[c].pc = "settled"
    /\ calls[c].op = "fetchOrders"
    /\ calls' = [calls EXCEPT ![c] = Resolve(@)]
    /\ UNCHANGED <<access_token, refresh_token, authStorage, cartStorage, authStore,
                   cartStore, navigation, purged>>

\* the checkout page's submit handler: setIsSubmitting(true) and the
\* checkout request; the submit button is disabled while isSubmitting
onSubmit(c, m) ==
    /\ Free(c)
    /\ \A d \in CallIds : ~calls[d].isSubmitting
    /\ calls' = [calls EXCEPT ![c] =
                    [Request("checkout", 1) EXCEPT !.payment_method = m,
                                                   !.isSubmitting = TRUE]]
    /\ UNCHANGED <<access_token, refresh_token, authStorage, cartStorage, authStore,
                   cartStore, navigation, purged>>

\* the url the handler assigns to window.location.href after the request
\* settled with r: the response's payment_url when the request succeeded,
\* the method is not 'cod' and a payment_url came back
CheckoutLocation(m, r) ==
    IF r.ok /\ m # "cod" /\ r.data.payment_url # "none"
    THEN r.data.payment_url ELSE "none"

\* the order whose page the handler pushes: the else branch of a success
CheckoutPush_Always(m, r) == IF r.ok THEN r.data.body ELSE Null

CheckoutPush(m, r) ==
    IF r.ok /\ ~(m # "cod" /\ r.data.payment_url # "none")
    THEN r.data.body ELSE Null

\* the rest of the handler: the navigation of the try block, the catch
\* that swallows the error, and setIsSubmitting(false) in finally
CheckoutContinue(c) ==
    /\ calls[c].pc = "settled"
    /\ calls[c].op = "checkout"
    /\ LET m == calls[c].payment_method
           r == calls[c].response
       IN /\ calls' = [calls EXCEPT ![c] =
                          [Resolve(@) EXCEPT !.payment_method = m,
                                             !.isSubmitting = FALSE,
                                             !.location = CheckoutLocation(m, r),
                                             !.pushed = CheckoutPush(m, r)]]
          /\ navigation' = IF CheckoutLocation(m, r) # "none"
                           THEN CheckoutLocation(m, r) ELSE navigation
    /\ UNCHANGED <<access_token, refresh_token, authStorage, cartStorage, authStore,
                   cartStore, purged>>

\* the caller's continuation (its try, catch and finally around the awaited
\* operation) has run; it touches component state only
Forget(c) ==
    /\ calls[c].pc = "done"
    /\ calls' = [x \in CallIds |->
                    IF x = c THEN IdleCall ELSE [calls[x] EXCEPT !.behind = @ \ {c}]]
    /\ UNCHANGED <<access_token, refresh_token, authStorage, cartStorage, authStore,
                   cartStore, navigation, purged>>

\* the document is replaced after window.location.href was assigned: every
\* pending request and continuation is gone, the stores are rebuilt from
\* localStorage
PageLoad ==
    /\ NoMicrotask
    /\ navigation # "none"
    /\ navigation' = "none"
    /\ calls' = [c \in CallIds |-> IdleCall]
    /\ authStore' = AuthRehydrate(authStorage)
    /\ cartStore' = CartRehydrate(cartStorage)
    /\ UNCHANGED <<access_token, refresh_token, authStorage, cartStorage, purged>>

\* the user reloads the page: as a page load, whether or not a navigation
\* is pending
Reload ==
    /\ NoMicrotask
    /\ navigation' = "none"
    /\ calls' = [c \in CallIds |-> IdleCall]
    /\ authStore' = AuthRehydrate(authStorage)
    /\ cartStore' = CartRehydrate(cartStorage)
    /\ UNCHANGED <<access_token, refresh_token, authStorage, cartStorage, purged>>

\* ------------------------------------------------------ specification
\* a first page load of a browser profile: cookies and localStorage hold
\* whatever an earlier visit left
Init ==
    /\ access_token \in {Null, 1}
    /\ refresh_token \in {Null, 1}
    /\ authStorage \in {AuthStorageAbsent} \cup
          {AuthPartialize([user |-> u, isAuthenticated |-> u # Null]) : u \in {Null} \cup Users}
    /\ cartStorage \in {CartStorageAbsent} \cup
          {CartPartialize([cart |-> k]) : k \in {Null} \cup Carts}
    /\ authStore = AuthRehydrate(authStorage)
    /\ cartStore = CartRehydrate(cartStorage)
    /\ navigation = "none"
    /\ calls = [c \in CallIds |-> IdleCall]
    /\ purged = FALSE

ApiNext ==
    \E c \in CallIds :
        \/ \E d \in Payloads(calls[c].op, calls[c].stage) : ResponseOk(c, d)
        \/ \E s \in ErrStatuses : ResponseError(c, s)
        \/ \E a \in Tokens : RefreshOk(c, a)
        \/ \E s \in ErrStatuses : RefreshError(c, s)
        \/ Forget(c)

CartNext ==
    \E c \in CallIds :
        \/ fetchCart(c)
        \/ addToCart(c)
        \/ updateQuantity(c)
        \/ removeFromCart(c)
        \/ clearCart(c)
        \/ CartContinue(c)

AuthNext ==
    \/ \E c \in CallIds :
        \/ login(c)
        \/ LoginCredentialContinue(c)
        \/ LoginProfileContinue(c)
        \/ register(c)
        \/ RegisterContinue(c)
        \/ logout(c)
        \/ LogoutContinue(c)
        \/ fetchProfile(c)
        \/ FetchProfileContinue(c)
        \/ updateProfile(c)
        \/ UpdateProfileContinue(c)
    \/ \E u \in {Null} \cup Users : setUser(u)

PageNext ==
    \E c \in CallIds :
        \/ fetchOrders(c)
        \/ FetchOrdersContinue(c)

CheckoutNext ==
    \E c \in CallIds :
        \/ \E m \in PaymentMethods : onSubmit(c, m)
        \/ CheckoutContinue(c)

Next == ApiNext \/ CartNext \/ AuthNext \/ PageNext \/ CheckoutNext \/ PageLoad

\* the whole client
Spec == Init /\ [][Next]_vars

\* the API client under the pages' own requests; no store operation runs
NextApi == ApiNext \/ PageNext \/ PageLoad

SpecApi == Init /\ [][NextApi]_vars

InitApi == Init /\ ~cartStorage.present

\* the API client under the pages' own requests and the session
\* operations of the auth store; the cart store is not used
SessionNext ==
    \E c \in CallIds :
        \/ login(c)
        \/ LoginCredentialContinue(c)
        \/ LoginProfileContinue(c)
        \/ register(c)
        \/ RegisterContinue(c)
        \/ fetchProfile(c)
        \/ FetchProfileContinue(c)

NextSession == ApiNext \/ PageNext \/ SessionNext \/ PageLoad

SpecSession == InitApi /\ [][NextSession]_vars

\* the cart store over the API client; the auth store is not used
NextCart == ApiNext \/ CartNext \/ PageLoad

SpecCart == Init /\ [][NextCart]_vars

\* the auth store over the API client, one store operation at a time
AuthSoloNext ==
    \E c \in CallIds :
        \/ Quiet /\ login(c)
        \/ LoginCredentialContinue(c)
        \/ LoginProfileContinue(c)
        \/ Quiet /\ register(c)
        \/ RegisterContinue(c)
        \/ Quiet /\ logout(c)
        \/ LogoutContinue(c)
        \/ Quiet /\ fetchProfile(c)
        \/ FetchProfileContinue(c)
        \/ Quiet /\ updateProfile(c)
        \/ UpdateProfileContinue(c)

NextAuth == ApiNext \/ AuthSoloNext \/ PageLoad

SpecAuth == InitApi /\ [][NextAuth]_vars

\* logout over the API client while profile fetches are in flight
LogoutRaceNext ==
    \E c \in CallIds :
        \/ logout(c)
        \/ LogoutContinue(c)
        \/ fetchProfile(c)
        \/ FetchProfileContinue(c)

NextLogoutRace == ApiNext \/ LogoutRaceNext \/ PageLoad

SpecLogoutRace == InitApi /\ [][NextLogoutRace]_vars

\* both stores over the API client, one store operation at a time, with
\* reloads by the user
CartSoloNext ==
    \E c \in CallIds :
        \/ Quiet /\ fetchCart(c)
        \/ Quiet /\ addToCart(c)
        \/ Quiet /\ updateQuantity(c)
        \/ Quiet /\ removeFromCart(c)
        \/ Quiet /\ clearCart(c)
        \/ CartContinue(c)

NextStores ==
    \/ ApiNext
    \/ AuthSoloNext
    \/ CartSoloNext
    \/ \E u \in {Null} \cup Users : setUser(u)
    \/ PageLoad
    \/ Reload

SpecStores == Init /\ [][NextStores]_vars

\* the cart store of a visitor without a session: no token cookie and no
\* persisted auth store; no token is ever written, so no refresh call is
\* ever made
InitGuest ==
    Init /\ access_token = Null /\ refresh_token = Null /\ ~authStorage.present

GuestApiNext ==
    \E c \in CallIds :
        \/ \E d \in Payloads(calls[c].op, calls[c].stage) : ResponseOk(c, d)
        \/ \E s \in ErrStatuses : ResponseError(c, s)
        \/ Forget(c)

NextCartGuest == GuestApiNext \/ CartNext \/ PageLoad

SpecCartGuest == InitGuest /\ [][NextCartGuest]_vars

\* the checkout page over the API client; its submit handler is the only
\* source of requests
NextCheckout == ApiNext \/ CheckoutNext \/ PageLoad

SpecCheckout == InitApi /\ [][NextCheckout]_vars

\* ------------------------------------------------------------- claims
\* the step in which the interceptor of c runs its catch (refreshError)
\* block: the refresh call was rejected, or no refresh token was stored
\* when a not-yet-retried request was answered 401
PurgeStep(c) ==
    \/ calls[c].pc = "refreshing" /\ calls'[c].pc = "settled"
    \/ /\ calls[c].pc = "sent" /\ calls'[c].pc = "settled"
       /\ ~calls[c]._retry /\ refresh_token = Null
       /\ ~calls'[c].response.ok
       /\ calls'[c].response.error.status = Unauthorized

\* the step in which the request of c is rejected with an error that is
\* not a recoverable 401
PlainRejection(c) ==
    /\ calls[c].pc = "sent" /\ calls'[c].pc = "settled"
    /\ ~calls'[c].response.ok
    /\ calls'[c].response.error.status # Unauthorized \/ calls[c]._retry

\* C1: for every original request the response interceptor issues at most
\* one refresh call and re-issues the request at most once, whatever the
\* backend answers; a re-issue only ever follows a refresh call.
C1_AtMostOneRefresh ==
    \A c \in CallIds :
        /\ calls[c].refreshCalls <= 1
        /\ calls[c].reissues <= calls[c].refreshCalls
        /\ calls[c].attempt <= 2
        /\ calls[c].pc = "refreshing" => calls[c].reissues = 0

\* C1 witness: a request was refreshed once, re-issued once, and the
\* re-issued request was answered 401 again.
C1_Witness ==
    \E c \in CallIds :
        /\ calls[c].pc = "settled"
        /\ calls[c].refreshCalls = 1 /\ calls[c].reissues = 1
        /\ ~calls[c].response.ok
        /\ calls[c].response.error.status = Unauthorized

\* C2 (step): when the refresh call of a request succeeds, the new access
\* token is stored in the cookie and the request is re-issued carrying it.
C2_ReissueStep ==
    \A c \in CallIds :
        calls[c].pc = "refreshing" /\ calls'[c].pc = "sent" =>
            /\ access_token' = calls'[c].refreshed
            /\ calls'[c].Authorization = calls'[c].refreshed
            /\ calls'[c].refreshed \in Tokens
            /\ calls'[c].attempt = 2

\* C2 (outcome): the promise of a re-issued request settles with the
\* outcome of the re-issue: its response, with no trace of the first 401,
\* or the re-issue's own error.
C2_ReissueOutcome ==
    \A c \in CallIds :
        calls[c].pc = "settled" /\ calls[c].reissues = 1 =>
            IF calls[c].response.ok
            THEN calls[c].response.error = NoError
            ELSE /\ calls[c].response.error.attempt = 2
                 /\ ~calls[c].response.error.isRefresh

\* C2: a not-yet-retried request answered 401 whose refresh call succeeds
\* has the new access token stored, is re-issued with it, and its caller's
\* promise settles with the outcome of the re-issued request.
C2_TransparentRefresh == [][C2_ReissueStep]_vars /\ []C2_ReissueOutcome

\* C2 witness: a re-issued request succeeded and its promise is fulfilled.
C2_Witness ==
    \E c \in CallIds :
        /\ calls[c].pc = "settled"
        /\ calls[c].reissues = 1
        /\ calls[c].response.ok

\* the step in which a re-issued request is rejected with 401
SecondUnauthorized(c) ==
    /\ calls[c].pc = "sent" /\ calls[c].reissues = 1
    /\ calls'[c].pc = "settled"
    /\ ~calls'[c].response.ok
    /\ calls'[c].response.error.status = Unauthorized

\* C3 (as claimed): a request answered 401, refreshed, and answered 401
\* again on its re-issue settles in a forced logout: both cookies purged
\* and a navigation to /login started.
C3_SecondUnauthorizedPurges ==
    [][\A c \in CallIds :
          SecondUnauthorized(c) =>
              /\ access_token' = Null
              /\ refresh_token' = Null
              /\ navigation' = "/login"]_vars

\* C3 (amended): such a request settles after exactly one refresh call by
\* rejecting with the 401 of the re-issued request; nothing is purged and
\* no navigation is started.
C3_SecondUnauthorizedRejects ==
    [][\A c \in CallIds :
          SecondUnauthorized(c) =>
              /\ calls'[c].refreshCalls = 1
              /\ calls'[c].response.error.attempt = 2
              /\ UNCHANGED <<access_token, refresh_token, authStorage,
                             cartStorage, navigation>>]_vars

\* C3 witness: the re-issued request was rejected with 401 while the
\* refreshed access token and the refresh token are still stored.
C3_Witness ==
    \E c \in CallIds :
        /\ calls[c].pc = "settled"
        /\ calls[c].reissues = 1
        /\ ~calls[c].response.ok
        /\ calls[c].response.error.status = Unauthorized
        /\ access_token # Null /\ refresh_token # Null
        /\ navigation = "none"

\* C4 (as claimed): the purge removes both cookies, the persisted auth
\* store and the persisted cart store, and starts a navigation to /login.
C4_PurgeRemovesAllPersisted ==
    [][\A c \in CallIds :
          PurgeStep(c) =>
              /\ access_token' = Null
              /\ refresh_token' = Null
              /\ ~authStorage'.present
              /\ ~cartStorage'.present
              /\ navigation' = "/login"]_vars

\* C4 (amended): the purge removes both cookies and the persisted auth
\* store and starts a navigation to /login; the persisted cart store is
\* left as it was.
C4_PurgeKeepsCartStorage ==
    [][\A c \in CallIds :
          PurgeStep(c) =>
              /\ access_token' = Null
              /\ refresh_token' = Null
              /\ ~authStorage'.present
              /\ cartStorage' = cartStorage
              /\ navigation' = "/login"]_vars

\* C4 witness: the interceptor has just purged the session (the original
\* 401 is being rejected, no re-issue happened) and 'cart-storage' holds a cart.
C4_Witness ==
    \E c \in CallIds :
        /\ calls[c].pc = "settled"
        /\ calls[c]._retry /\ calls[c].reissues = 0
        /\ ~calls[c].response.ok
        /\ navigation = "/login"
        /\ cartStorage.present /\ cartStorage.cart # Null

\* C5: concurrent 401 failures share one token-refresh call: there is
\* never more than one refresh call in flight.
C5_SingleRefreshInFlight ==
    Cardinality({c \in CallIds : calls[c].pc = "refreshing"}) <= 1

\* C6: every not-yet-retried request answered 401 while a refresh token is
\* stored issues its own refresh call, whatever the other requests are doing.
C6_OwnRefreshPerRequest ==
    \A c \in CallIds :
        /\ calls[c].had401 => calls[c].refreshCalls = 1
        /\ calls[c].pc = "refreshing" => calls[c].had401

\* C6 witness: the refresh calls of all the requests are in flight at once.
C6_Witness ==
    \A c \in CallIds : calls[c].pc = "refreshing" /\ calls[c].refreshCalls = 1

\* C7: once the session was purged, and until a login or register
\* succeeds, every request that leaves through the client (a new request
\* or a re-issue) leaves without an Authorization header.
C7_AnonymousAfterPurge ==
    [][\A c \in CallIds :
          purged /\ purged' /\ calls[c].pc # "sent" /\ calls'[c].pc = "sent" =>
              calls'[c].Authorization = Null]_vars

\* C8: an error that is not a recoverable 401 is rejected to the caller
\* as it is; no refresh call, no re-issue, and cookies, localStorage,
\* stores and location are untouched.  Only a 401 on a not-yet-retried
\* request ever starts a refresh call.
C8_PlainErrorsPassThrough ==
    [][\A c \in CallIds :
          /\ PlainRejection(c) =>
                /\ calls'[c].response.error.attempt = calls[c].attempt
                /\ ~calls'[c].response.error.isRefresh
                /\ calls'[c].refreshCalls = calls[c].refreshCalls
                /\ calls'[c].reissues = calls[c].reissues
                /\ UNCHANGED <<access_token, refresh_token, authStorage, cartStorage,
                               authStore, cartStore, navigation>>
          /\ calls[c].pc = "sent" /\ calls'[c].pc = "refreshing" =>
                /\ ~calls[c]._retry
                /\ calls'[c].error.status = Unauthorized]_vars

\* C8 witness: a re-issued request (already marked as retried) was rejected
\* with 401 and a session is still stored.
C8_Witness ==
    \E c \in CallIds :
        /\ calls[c].pc = "settled"
        /\ calls[c]._retry /\ calls[c].reissues = 1
        /\ ~calls[c].response.ok
        /\ calls[c].response.error = [attempt |-> 2, status |-> Unauthorized,
                                      isRefresh |-> FALSE]
        /\ refresh_token # Null

\* the step in which a cart mutation of c continues after its request
\* was fulfilled / was rejected
MutationSucceeds(c) ==
    /\ calls[c].pc = "settled" /\ calls[c].op \in CartMutations
    /\ calls[c].response.ok
    /\ calls'[c].pc = "done"

MutationFails(c) ==
    /\ calls[c].pc = "settled" /\ calls[c].op \in CartMutations
    /\ ~calls[c].response.ok
    /\ calls'[c].pc = "done"

\* C9 (as claimed): every successful addToCart, updateQuantity,
\* removeFromCart and clearCart replaces the cart with the snapshot of its
\* own response.
C9_SnapshotOfOwnResponse ==
    [][\A c \in CallIds :
          MutationSucceeds(c) =>
              /\ cartStore'.cart = calls[c].response.data.body
              /\ calls'[c].result = "resolved"]_vars

\* C9 (amended, step): a successful addToCart, updateQuantity or
\* removeFromCart replaces the cart with the snapshot of its own response;
\* a successful clearCart sets the cart to null without reading the response.
C9_ReplaceStep ==
    \A c \in CallIds :
        MutationSucceeds(c) =>
            /\ cartStore'.cart =
                  IF calls[c].op = "clearCart" THEN Null ELSE calls[c].response.data.body
            /\ cartStorage'.cart = cartStore'.cart
            /\ calls'[c].result = "resolved"

\* C9 (amended, state): the cart is absent or a snapshot the server
\* returned, and so is the persisted cart.
C9_CartIsServerSnapshot ==
    /\ cartStore.cart \in {Null} \cup Carts
    /\ cartStorage.cart \in {Null} \cup Carts

\* C9 (amended): see the two parts above.
C9_ReplaceOrClear == [][C9_ReplaceStep]_vars /\ []C9_CartIsServerSnapshot

\* C9 witness: updateQuantity has just resolved and the store and the
\* persisted entry hold a server snapshot, while a clearCart is in flight.
C9_Witness ==
    \E c, d \in CallIds :
        /\ calls[c].pc = "done" /\ calls[c].op = "updateQuantity"
        /\ calls[c].result = "resolved"
        /\ calls[d].pc = "sent" /\ calls[d].op = "clearCart"
        /\ cartStore.cart = 2 /\ cartStorage.cart = 2

\* C10: a failed addToCart, updateQuantity, removeFromCart or clearCart
\* leaves the cart (and the persisted cart) as it was and rejects with the
\* error of its request; the only steps that change the cart at all are the
\* continuation of a fulfilled request and a page load.
C10_FailureKeepsCart ==
    [][/\ \A c \in CallIds :
            MutationFails(c) =>
                /\ cartStore'.cart = cartStore.cart
                /\ cartStorage'.cart = cartStorage.cart
                /\ calls'[c].result = "rejected"
                /\ calls'[c].thrown = calls[c].response.error
       /\ cartStore'.cart # cartStore.cart =>
            \/ \E c \in CallIds : calls[c].pc = "settled" /\ calls[c].response.ok
            \/ navigation # "none" /\ navigation' = "none"]_vars

\* C10 witness: a cart mutation was rejected with a server error while
\* the store holds a cart.
C10_Witness ==
    \E c \in CallIds :
        /\ calls[c].pc = "done" /\ calls[c].op \in CartMutations
        /\ calls[c].result = "rejected"
        /\ calls[c].thrown.status = 500
        /\ cartStore.cart # Null

\* C11: when cart mutations are in flight together, each successful
\* response replaces the cart as it is processed, whatever the order the
\* calls were issued in: the response of a call that another call has
\* overtaken still overwrites the cart, so the cart ends as the snapshot
\* of the response processed last.
C11_LastProcessedWins ==
    [][\A c \in CallIds :
          MutationSucceeds(c) /\ (calls[c].overtaken \/ calls[c].behind # {}) =>
              /\ cartStore'.cart = CartOnSuccess(calls[c].op, calls[c].response.data.body)
              /\ cartStorage'.cart = cartStore'.cart
              /\ \A d \in calls[c].behind : calls'[d].overtaken]_vars

\* C11 witness: updateQuantity was issued first, the response of a call
\* issued after it was applied first, and updateQuantity's response,
\* processed last, has just put its own snapshot in the store.
C11_Witness ==
    \E c \in CallIds :
        /\ calls[c].pc = "done" /\ calls[c].op = "updateQuantity"
        /\ calls[c].result = "resolved"
        /\ calls[c].overtaken
        /\ cartStore.cart = 1 /\ cartStorage.cart = 1
        /\ \A d \in CallIds \ {c} : calls[d].pc = "idle"

\* the step in which operation o of c continues after the request of
\* its stage st was fulfilled / was rejected
Continues(c, o, st) ==
    /\ calls[c].pc = "settled" /\ calls[c].op = o /\ calls[c].stage = st
    /\ calls'[c].pc # "settled"

AfterSuccess(c, o, st) == Continues(c, o, st) /\ calls[c].response.ok

AfterFailure(c, o, st) == Continues(c, o, st) /\ ~calls[c].response.ok

\* C12: when the credential call succeeded and the profile fetch failed,
\* the store is not authenticated when login settles.
C12_AuthenticatedOnlyAfterProfile ==
    [][\A c \in CallIds :
          AfterFailure(c, "login", 2) /\ calls'[c].pc = "done" =>
              ~authStore'.isAuthenticated]_vars

C14_FailedLoginLeavesSession ==
    [][\A c \in CallIds :
          AfterFailure(c, "login", 1) =>
              /\ calls'[c].result = "rejected"
              /\ calls'[c].thrown = calls[c].response.error
              /\ authStore'.user = calls[c].before.user
              /\ authStore'.isAuthenticated = calls[c].before.isAuthenticated
              /\ ~authStore'.isLoading
              /\ access_token' \in {calls[c].before.access_token, Null}
              /\ refresh_token' \in {calls[c].before.refresh_token, Null}]_vars

\* the step in which logout completes: at once when no refresh token is
\* stored, otherwise after the invalidation request settled, either way
LogoutCompletes(c) ==
    /\ calls[c].pc \in {"idle", "settled"}
    /\ calls'[c].pc = "done" /\ calls'[c].op = "logout"

\* C15: logout always resolves, and in the step in which it does both
\* cookies are removed, user is null and isAuthenticated false (in the
\* store and in its persisted copy), whether the invalidation request
\* succeeded, failed or was never sent.
C15_LogoutAlwaysClears ==
    [][\A c \in CallIds :
          /\ LogoutCompletes(c) =>
                /\ calls'[c].result = "resolved"
                /\ access_token' = Null /\ refresh_token' = Null
                /\ authStore'.user = Null /\ ~authStore'.isAuthenticated
                /\ authStorage' = AuthPartialize(authStore')
          /\ calls[c].pc = "idle" /\ calls'[c].op = "logout" =>
                (calls'[c].pc = "sent") = (refresh_token # Null)
          /\ calls'[c].op = "logout" => calls'[c].result # "rejected"]_vars

\* C15 witness: logout has just resolved after its invalidation request was
\* rejected with a server error.
C15_Witness ==
    \E c \in CallIds :
        /\ calls[c].pc = "done" /\ calls[c].op = "logout"
        /\ calls[c].result = "resolved"
        /\ ~calls[c].response.ok /\ calls[c].response.error.status = 500
        /\ access_token = Null /\ refresh_token = Null
        /\ authStore.user = Null /\ ~authStore.isAuthenticated

\* C16: fetchProfile always resolves; when its request succeeded user is
\* the record of the response and isAuthenticated is true, when it failed
\* (whatever the error) user is null and isAuthenticated is false.
C16_FetchProfileSyncsOrClears ==
    [][\A c \in CallIds :
          Continues(c, "fetchProfile", 1) =>
              /\ calls'[c].pc = "done" /\ calls'[c].result = "resolved"
              /\ authStore'.user =
                    IF calls[c].response.ok THEN calls[c].response.data.body ELSE Null
              /\ authStore'.isAuthenticated = calls[c].response.ok
              /\ authStore'.isLoading = authStore.isLoading
              /\ authStorage' = AuthPartialize(authStore')]_vars

\* C16 witness: fetchProfile has just resolved after its request failed
\* with a server error, and the store and its persisted copy hold no user.
C16_Witness ==
    \E c \in CallIds :
        /\ calls[c].pc = "done" /\ calls[c].op = "fetchProfile"
        /\ calls[c].result = "resolved"
        /\ ~calls[c].response.ok /\ calls[c].response.error.status = 500
        /\ authStore.user = Null /\ ~authStore.isAuthenticated
        /\ authStorage = AuthPartialize(authStore)

\* C17: when the registration call succeeds, register stores both
\* returned tokens, sets user to the returned record and isAuthenticated
\* to true, and resolves in the same step, with isLoading false and
\* without another request.
C17_RegisterStoresTokensAndUser ==
    [][\A c \in CallIds :
          AfterSuccess(c, "register", 1) =>
              /\ access_token' = calls[c].response.data.access
              /\ refresh_token' = calls[c].response.data.refresh
              /\ authStore' = [user |-> calls[c].response.data.body,
                               isAuthenticated |-> TRUE, isLoading |-> FALSE]
              /\ authStorage' = AuthPartialize(authStore')
              /\ calls'[c].pc = "done" /\ calls'[c].result = "resolved"
              /\ \A d \in CallIds \ {c} : calls'[d] = calls[d]]_vars

\* C17 witness: register has just resolved; cookies and store hold what the
\* registration response carried.
C17_Witness ==
    \E c \in CallIds :
        /\ calls[c].pc = "done" /\ calls[c].op = "register"
        /\ calls[c].result = "resolved"
        /\ access_token = calls[c].response.data.access
        /\ refresh_token = calls[c].response.data.refresh
        /\ access_token = 2 /\ refresh_token = 1
        /\ authStore = [user |-> calls[c].response.data.body,
                        isAuthenticated |-> TRUE, isLoading |-> FALSE]

\* C18: updateProfile leaves the store alone when it sends its request and
\* while the request is in flight; when the request succeeds user becomes
\* the record of the response whatever it was before, when it fails the
\* store is unchanged and updateProfile rejects with the error.
C18_ServerEchoReplacesUser ==
    [][\A c \in CallIds :
          /\ calls'[c].op = "updateProfile" /\ calls'[c].pc \in {"sent", "refreshing", "settled"} =>
                /\ authStore' = authStore
                /\ authStorage'.present => authStorage' = authStorage
          /\ AfterSuccess(c, "updateProfile", 1) =>
                /\ authStore' = [authStore EXCEPT !.user = calls[c].response.data.body]
                /\ authStorage' = AuthPartialize(authStore')
                /\ calls'[c].result = "resolved"
          /\ AfterFailure(c, "updateProfile", 1) =>
                /\ authStore' = authStore /\ authStorage' = authStorage
                /\ calls'[c].result = "rejected"
                /\ calls'[c].thrown = calls[c].response.error]_vars

\* C18 witness: updateProfile has just resolved and user is the record of
\* its response.
C18_Witness ==
    \E c \in CallIds :
        /\ calls[c].pc = "done" /\ calls[c].op = "updateProfile"
        /\ calls[c].result = "resolved"
        /\ calls[c].response.ok
        /\ authStore.user = calls[c].response.data.body
        /\ authStore.user = MaxUser

\* C19: login, register, updateProfile, addToCart, updateQuantity,
\* removeFromCart and clearCart reject whenever a request they made failed.
C19_NoSwallowedFailure ==
    [][\A c \in CallIds :
          /\ calls[c].pc = "settled" /\ ~calls[c].response.ok
          /\ calls[c].op \in {"login", "register", "updateProfile"} \cup CartMutations
          /\ calls'[c].pc = "done"
          => calls'[c].result = "rejected"]_vars

\* C20: from the forced logout to the reload that follows it, what the
\* reload would rehydrate from 'auth-storage' is user = null and
\* isAuthenticated = false.
C20_CleanSlateAfterPurge ==
    navigation = "/login" =>
        /\ AuthRehydrate(authStorage).user = Null
        /\ ~AuthRehydrate(authStorage).isAuthenticated

\* the operations of the auth store that await a request
AuthOps == {"login", "register", "logout", "fetchProfile", "updateProfile"}

\* C21: whenever no auth-store operation is in flight, isAuthenticated is
\* true exactly when user is non-null.
C21_FlagDerivedFromUser ==
    (\A c \in CallIds : calls[c].op \in AuthOps => calls[c].pc = "done") =>
        (authStore.isAuthenticated <=> authStore.user # Null)

\* C22: a clearCart the server accepts resolves and leaves the cart (and
\* the persisted cart) null without touching the error flag; on a cart
\* that is already null, as after a first clearCart, that is no change.
C22_ClearCartIdempotent ==
    [][\A c \in CallIds :
          AfterSuccess(c, "clearCart", 1) =>
              /\ calls'[c].pc = "done" /\ calls'[c].result = "resolved"
              /\ cartStore'.cart = Null /\ cartStorage'.cart = Null
              /\ cartStore'.error = cartStore.error
              /\ cartStore.cart = Null => cartStore'.cart = cartStore.cart]_vars

\* C22 witness: a clearCart started on a cart that was already null has
\* just resolved; the cart is still null and no error is set.
C22_Witness ==
    \E c \in CallIds :
        /\ calls[c].pc = "done" /\ calls[c].op = "clearCart"
        /\ calls[c].result = "resolved"
        /\ calls[c].onEmpty
        /\ cartStore.cart = Null /\ cartStorage.cart = Null
        /\ ~cartStore.error

\* the step in which a request of c leaves through the client: a new
\* request of an operation, or the re-issue after a refresh
Leaves(c) ==
    /\ calls'[c].pc = "sent"
    /\ calls[c].pc # "sent" \/ calls'[c].stage # calls[c].stage

\* C23: every request that leaves through the client carries the access
\* token stored at that moment as its Authorization header, and none when
\* no access token is stored; sending a new request with no token stored
\* changes no cookie, no persisted state and no navigation.
C23_BearerIffTokenStored ==
    [][\A c \in CallIds :
          Leaves(c) =>
              /\ calls'[c].Authorization = access_token'
              /\ (access_token' = Null) <=> (calls'[c].Authorization = Null)
              /\ calls[c].pc = "idle" /\ access_token = Null =>
                    UNCHANGED <<access_token, refresh_token, cartStorage, navigation>>]_vars

\* C23 witness: of two requests in flight, one left with the bearer token
\* and the other, sent after the session was purged, without a header.
C23_Witness ==
    \E c, d \in CallIds :
        /\ calls[c].pc = "sent" /\ calls[c].Authorization = Null
        /\ calls[d].pc \in {"sent", "refreshing"} /\ calls[d].Authorization \in Tokens
        /\ access_token = Null

\* C24 (state): an entry that exists holds exactly the fields partialize
\* selects, with the values the store holds now, so that rehydrating from
\* it gives the current user, isAuthenticated and cart with the loading
\* flags (and the cart's error) reset.
C24_PersistedIsCurrent ==
    /\ authStorage.present =>
          /\ authStorage = [present |-> TRUE, user |-> authStore.user,
                            isAuthenticated |-> authStore.isAuthenticated]
          /\ AuthRehydrate(authStorage) = [authStore EXCEPT !.isLoading = FALSE]
    /\ cartStorage.present =>
          /\ cartStorage = [present |-> TRUE, cart |-> cartStore.cart]
          /\ CartRehydrate(cartStorage) =
                [cart |-> cartStore.cart, isLoading |-> FALSE, error |-> FALSE]

\* C24 (step): every update of a store writes its entry; the only other
\* change of a store is a load of the page, which leaves the entries alone
\* and rebuilds both stores from them.
C24_WriteThenRehydrate ==
    /\ authStore' # authStore =>
          \/ authStorage' = AuthPartialize(authStore')
          \/ authStorage' = authStorage /\ authStore' = AuthRehydrate(authStorage)
    /\ cartStore' # cartStore =>
          \/ cartStorage' = CartPartialize(cartStore')
          \/ cartStorage' = cartStorage /\ cartStore' = CartRehydrate(cartStorage)
    /\ (\E c \in CallIds : calls[c].pc \in {"sent", "refreshing"})
          /\ (\A c \in CallIds : calls'[c].pc = "idle") =>
          /\ authStore' = AuthRehydrate(authStorage)
          /\ cartStore' = CartRehydrate(cartStorage)
          /\ UNCHANGED <<authStorage, cartStorage>>

\* C24: persisted state round-trips through a reload (the two parts above).
C24_PersistRoundTrip == []C24_PersistedIsCurrent /\ [][C24_WriteThenRehydrate]_vars

\* C24 witness: after updates of both stores (a register that has just
\* resolved, a cart operation that failed on a non-empty cart) the two
\* entries hold the current user, isAuthenticated and cart.
C24_Witness ==
    \E c \in CallIds :
        /\ calls[c].pc = "done" /\ calls[c].op = "register"
        /\ calls[c].result = "resolved"
        /\ authStore.user = calls[c].response.data.body
        /\ authStorage = AuthPartialize(authStore)
        /\ cartStore.cart # Null /\ cartStore.error
        /\ cartStorage = CartPartialize(cartStore)

\* C25: at the moment the promise of a successful addToCart,
\* updateQuantity or removeFromCart resolves, before anything else runs,
\* the cart (and the persisted cart) is the snapshot of that operation's
\* own response, whatever other cart operations are in flight.
C25_OwnSnapshotAtResolve ==
    \A c \in CallIds :
        /\ calls[c].pc = "done" /\ calls[c].result = "resolved"
        /\ calls[c].op \in {"addToCart", "updateQuantity", "removeFromCart"}
        => /\ calls[c].response.ok
           /\ cartStore.cart = calls[c].response.data.body
           /\ cartStorage.cart = calls[c].response.data.body

\* C25 witness: removeFromCart has just resolved with its own snapshot in
\* the store while an updateQuantity issued before it is still in flight.
C25_Witness ==
    \E c, d \in CallIds :
        /\ calls[c].pc = "done" /\ calls[c].op = "removeFromCart"
        /\ calls[c].result = "resolved"
        /\ calls[d].pc = "sent" /\ calls[d].op = "updateQuantity"
        /\ calls[d].overtaken
        /\ cartStore.cart = calls[c].response.data.body
        /\ cartStore.cart = 2

\* C26: no step of an operation that was in flight when a logout
\* completed (the arrival of its response, its token refresh, its
\* continuation) stores an access token, sets a user or sets
\* isAuthenticated.
C26_LogoutIsFinal ==
    [][\A c \in CallIds :
          calls[c].stale /\ calls'[c] # calls[c] =>
              /\ access_token' \in {access_token, Null}
              /\ refresh_token' \in {refresh_token, Null}
              /\ authStore'.user \in {authStore.user, Null}
              /\ authStore'.isAuthenticated => authStore.isAuthenticated]_vars

\* the step in which the backend's 401 to the first attempt of the
\* credential or registration request of c reaches the response interceptor
CredentialsRejected(c) ==
    /\ calls[c].op \in {"login", "register"} /\ calls[c].stage = 1
    /\ calls[c].pc = "sent" /\ calls[c].attempt = 1
    /\ \/ calls'[c].pc = "refreshing" /\ calls'[c].error.status = Unauthorized
       \/ /\ calls'[c].pc = "settled" /\ ~calls'[c].response.ok
          /\ calls'[c].response.error.status = Unauthorized

\* C27: a 401 to a login or register request only rejects the request: no
\* refresh call is issued, no cookie removed, the persisted auth state is
\* not deleted and no navigation is forced.
C27_CredentialErrorOnlyRejects ==
    [][\A c \in CallIds :
          CredentialsRejected(c) =>
              /\ calls'[c].pc = "settled"
              /\ calls'[c].refreshCalls = 0
              /\ UNCHANGED <<access_token, refresh_token, authStorage, navigation>>]_vars

\* C28: the cart store's isLoading is true exactly when a cart operation
\* is in flight (started, and its continuation has not run yet).
C28_LoadingIffInFlight ==
    cartStore.isLoading <=>
        \E c \in CallIds : /\ calls[c].op \in CartOps
                           /\ calls[c].pc \in {"sent", "refreshing", "settled"}

\* C29: in the step in which the refresh flow of a request fails (no
\* refresh token stored, or the refresh call rejected) the session is
\* purged and the request's promise is rejected with the 401 error of the
\* request itself, never with the error of the refresh call; it is not
\* fulfilled and not left pending.
C29_RejectsWithOriginalError ==
    [][\A c \in CallIds :
          PurgeStep(c) =>
              /\ calls'[c].pc = "settled"
              /\ ~calls'[c].response.ok
              /\ calls'[c].response.error =
                    [attempt |-> 1, status |-> Unauthorized, isRefresh |-> FALSE]
              /\ calls'[c].reissues = 0
              /\ access_token' = Null /\ refresh_token' = Null
              /\ navigation' = "/login"]_vars

\* C29 witness: the refresh call of a request was rejected; the session is
\* purged and the request's promise is rejected with the request's own 401.
C29_Witness ==
    \E c \in CallIds :
        /\ calls[c].pc = "settled"
        /\ calls[c].refreshCalls = 1 /\ calls[c].reissues = 0
        /\ ~calls[c].response.ok
        /\ calls[c].response.error = [attempt |-> 1, status |-> Unauthorized,
                                      isRefresh |-> FALSE]
        /\ access_token = Null /\ refresh_token = Null
        /\ navigation = "/login"

\* what the checkout page's submit handler does once its request has
\* settled: after a success exactly one navigation, to the payment_url
\* when the method is not 'cod' and one was returned, else to the order's
\* page; after a failure none; isSubmitting is false either way
CheckoutHandler(c) ==
    LET m == calls[c].payment_method
        r == calls[c].response
        paid == m # "cod" /\ r.data.payment_url # "none"
    IN /\ calls'[c].pc = "done"
       /\ ~calls'[c].isSubmitting
       /\ (r.ok /\ paid) =>
             /\ calls'[c].location = r.data.payment_url
             /\ navigation' = r.data.payment_url
             /\ calls'[c].pushed = Null
       /\ (r.ok /\ ~paid) =>
             /\ calls'[c].pushed = r.data.body /\ r.data.body \in Orders
             /\ calls'[c].location = "none"
             /\ navigation' = navigation
       /\ ~r.ok =>
             /\ calls'[c].location = "none" /\ calls'[c].pushed = Null
             /\ navigation' = navigation

\* the step in which the checkout request of c is rejected
CheckoutRejected(c) ==
    /\ calls[c].op = "checkout"
    /\ calls[c].pc \in {"sent", "refreshing"} /\ calls'[c].pc = "settled"
    /\ ~calls'[c].response.ok

\* C30 as stated: the handler navigates exactly once after a successful
\* checkout request and leaves isSubmitting false, and a failed checkout
\* request brings no navigation at all.
C30_FailedCheckoutNeverNavigates ==
    [][\A c \in CallIds :
          /\ Continues(c, "checkout", 1) => CheckoutHandler(c)
          /\ CheckoutRejected(c) => navigation' = navigation]_vars

\* C30 amended: the handler navigates exactly once after a successful
\* checkout request (to the payment_url when the method is not 'cod' and
\* one was returned, else to the order's page), not at all after a failed
\* one, and leaves isSubmitting false; the only navigation a failed
\* checkout request brings is the API client's, to /login, in the step
\* that purges the session.
C30_CheckoutNavigatesOnce ==
    [][\A c \in CallIds :
          /\ Continues(c, "checkout", 1) => CheckoutHandler(c)
          /\ CheckoutRejected(c) =>
                \/ navigation' = navigation
                \/ PurgeStep(c) /\ navigation' = "/login"]_vars

\* C30 witness: a checkout paid by a method other than 'cod' was answered
\* with a payment_url; the handler has finished, the browser is leaving
\* for that url, nothing was pushed and isSubmitting is false.
C30_Witness ==
    \E c \in CallIds :
        /\ calls[c].op = "checkout" /\ calls[c].pc = "done"
        /\ calls[c].payment_method = "vnpay"
        /\ calls[c].response.ok
        /\ calls[c].response.data.payment_url = PaymentUrl
        /\ calls[c].location = PaymentUrl /\ navigation = PaymentUrl
        /\ calls[c].pushed = Null
        /\ ~calls[c].isSubmitting

====
